---- MODULE Spec2Model ----
(***************************************************************************)
(* Model of the service-control HTTP filter                                *)
(* (src/src/envoy/http/service_control/filter.cc): one Filter instance     *)
(* serving one request, together with the collaborators it drives (token   *)
(* cache, check/report HTTP calls, decoder callbacks, stats) and the       *)
(* pipeline that delivers headers, body, trailers, log and teardown.       *)
(*                                                                         *)
(* The filter's methods are written as operators over a record w holding   *)
(* the member fields and the observable effects, so that a callback that   *)
(* fires synchronously inside another method is the nested application of  *)
(* the same operator the asynchronous delivery uses.                       *)
(***************************************************************************)
EXTENDS Integers, Sequences, FiniteSets, TLC

VARIABLES
  config,               \* api_keys() list of the key-requiring requirement
  request,              \* the request the pipeline delivered (NoRequest before)
  state_, stopped_, token_fetcher_, check_call_, token_, api_key_,
  requirement_, service_ctx_, uuid_, operation_name_, api_name_, api_version_,
  http_method_, params_parsed_, parsed_params_, check_status_,
  check_response_info_,
  allowed, denied,      \* config_->stats().allowed_ / denied_
  replies,              \* codes passed to sendLocalReply, in order
  responseFlag,         \* UnauthorizedExternalService set on the stream info
  resumed,              \* number of continueDecoding() calls
  tokenFetches,         \* number of getToken() calls
  checkCalls,           \* check requests sent, in order
  reports,              \* report requests sent, in order
  tokenCall, checkCall, \* life cycle of the outstanding token fetch / check call
  cancels,              \* cancellations invoked by onDestroy, in order
  crashed,              \* the process died on a null dereference
  hdrResult,            \* value decodeHeaders returned
  bodyLog,              \* decodeData / decodeTrailers deliveries and results
  trailersSeen,
  destroyCount,         \* number of onDestroy() calls
  exchangeComplete      \* the pipeline ran its end-of-exchange hook (log)

filterVars == <<state_, stopped_, token_fetcher_, check_call_, token_, api_key_,
  requirement_, service_ctx_, uuid_, operation_name_, api_name_, api_version_,
  http_method_, params_parsed_, parsed_params_, check_status_,
  check_response_info_>>

effectVars == <<allowed, denied, replies, responseFlag, resumed, tokenFetches,
  checkCalls, reports, tokenCall, checkCall, cancels, crashed, hdrResult>>

pipeVars == <<config, request, bodyLog, trailersSeen, destroyCount,
  exchangeComplete>>

vars == <<filterVars, effectVars, pipeVars>>

----------------------------------------------------------------------------
(* Bounds *)

MaxData == 2            \* body chunks the pipeline delivers
MaxDestroy == 2         \* onDestroy() deliveries
MaxSources == 2         \* declared key sources in the full-pipeline runs
MaxKeySources == 3      \* declared key sources in the extraction runs

----------------------------------------------------------------------------
(* Configuration and requests *)

EmptyMap == [n \in {} |-> ""]

Maps(names, vals) == UNION {[D -> vals] : D \in SUBSET names}

\* Http::LowerCaseString
LowerCaseString(s) ==
  CASE s = "X-API-Key" -> "x-api-key"
    [] s = "Key" -> "key"
    [] OTHER -> s

APIKeySources ==
  {[key_case |-> "kQuery", name |-> "key"],
   [key_case |-> "kQuery", name |-> "api_key"],
   [key_case |-> "kHeader", name |-> "X-API-Key"],
   [key_case |-> "kCookie", name |-> "key"],
   [key_case |-> "KEY_NOT_SET", name |-> ""]}

SeqsUpTo(S, n) == UNION {[1..k -> S] : k \in 0..n}

\* the requirement table of the configuration, keyed by method and path
Requirements(cfg) ==
  [k \in {<<"GET", "/v1/items">>, <<"GET", "/open">>, <<"GET", "/orphan">>} |->
     CASE k = <<"GET", "/v1/items">> ->
            [service_name |-> "svc", operation_name |-> "ListItems",
             api_name |-> "items", api_version |-> "v1",
             allow_without_api_key |-> FALSE, api_keys |-> cfg]
       [] k = <<"GET", "/open">> ->
            [service_name |-> "svc", operation_name |-> "Open",
             api_name |-> "items", api_version |-> "v1",
             allow_without_api_key |-> TRUE, api_keys |-> cfg]
       [] k = <<"GET", "/orphan">> ->
            [service_name |-> "ghost", operation_name |-> "Orphan",
             api_name |-> "items", api_version |-> "v1",
             allow_without_api_key |-> FALSE, api_keys |-> cfg]]

Services == {"svc"}

Null == [null |-> TRUE]

FindRequirement(cfg, method, path) ==
  IF <<method, path>> \in DOMAIN Requirements(cfg)
    THEN Requirements(cfg)[<<method, path>>] ELSE Null

FindService(name) == IF name \in Services THEN [service_name |-> name] ELSE Null

NoRequest == [none |-> TRUE]

Request(m, p, q, h, c) ==
  [method |-> m, path |-> p, query |-> q, headers |-> h, cookies |-> c]

----------------------------------------------------------------------------
(* The filter and what it has done so far, as one record *)

World ==
  [state_ |-> state_, stopped_ |-> stopped_, token_fetcher_ |-> token_fetcher_,
   check_call_ |-> check_call_, token_ |-> token_, api_key_ |-> api_key_,
   requirement_ |-> requirement_, service_ctx_ |-> service_ctx_,
   uuid_ |-> uuid_, operation_name_ |-> operation_name_,
   api_name_ |-> api_name_, api_version_ |-> api_version_,
   http_method_ |-> http_method_, params_parsed_ |-> params_parsed_,
   parsed_params_ |-> parsed_params_, check_status_ |-> check_status_,
   check_response_info_ |-> check_response_info_,
   allowed |-> allowed, denied |-> denied, replies |-> replies,
   responseFlag |-> responseFlag, resumed |-> resumed,
   tokenFetches |-> tokenFetches, checkCalls |-> checkCalls,
   reports |-> reports, tokenCall |-> tokenCall, checkCall |-> checkCall,
   cancels |-> cancels, crashed |-> crashed, hdrResult |-> hdrResult]

Assign(w) ==
  /\ state_' = w.state_
  /\ stopped_' = w.stopped_
  /\ token_fetcher_' = w.token_fetcher_
  /\ check_call_' = w.check_call_
  /\ token_' = w.token_
  /\ api_key_' = w.api_key_
  /\ requirement_' = w.requirement_
  /\ service_ctx_' = w.service_ctx_
  /\ uuid_' = w.uuid_
  /\ operation_name_' = w.operation_name_
  /\ api_name_' = w.api_name_
  /\ api_version_' = w.api_version_
  /\ http_method_' = w.http_method_
  /\ params_parsed_' = w.params_parsed_
  /\ parsed_params_' = w.parsed_params_
  /\ check_status_' = w.check_status_
  /\ check_response_info_' = w.check_response_info_
  /\ allowed' = w.allowed
  /\ denied' = w.denied
  /\ replies' = w.replies
  /\ responseFlag' = w.responseFlag
  /\ resumed' = w.resumed
  /\ tokenFetches' = w.tokenFetches
  /\ checkCalls' = w.checkCalls
  /\ reports' = w.reports
  /\ tokenCall' = w.tokenCall
  /\ checkCall' = w.checkCall
  /\ cancels' = w.cancels
  /\ crashed' = w.crashed
  /\ hdrResult' = w.hdrResult

----------------------------------------------------------------------------
(* Key extraction, filter.cc 31-67 *)

ExtractAPIKeyFromQuery(w, req, query) ==
  LET w1 == IF w.params_parsed_ THEN w
            ELSE [w EXCEPT !.parsed_params_ = req.query,
                           !.params_parsed_ = TRUE]
  IN IF query \in DOMAIN w1.parsed_params_
       THEN [w1 EXCEPT !.api_key_ = w1.parsed_params_[query]]
       ELSE w1

ExtractAPIKeyFromHeader(w, req, header) ==
  IF LowerCaseString(header) \in DOMAIN req.headers
    THEN [w EXCEPT !.api_key_ = req.headers[LowerCaseString(header)]]
    ELSE w

\* Http::Utility::parseCookieValue: the empty string when the cookie is absent
parseCookieValue(req, cookie) ==
  IF cookie \in DOMAIN req.cookies THEN req.cookies[cookie] ELSE ""

\* variant: the cookie value is stored without the emptiness test
ExtractAPIKeyFromCookie_Unchecked(w, req, cookie) ==
  [w EXCEPT !.api_key_ = parseCookieValue(req, cookie)]

ExtractAPIKeyFromCookie(w, req, cookie) ==
  LET api_key == parseCookieValue(req, cookie)
  IN IF api_key # "" THEN [w EXCEPT !.api_key_ = api_key] ELSE w

ExtractOne(w, req, api_key) ==
  CASE api_key.key_case = "kQuery" -> ExtractAPIKeyFromQuery(w, req, api_key.name)
    [] api_key.key_case = "kHeader" -> ExtractAPIKeyFromHeader(w, req, api_key.name)
    [] api_key.key_case = "kCookie" -> ExtractAPIKeyFromCookie(w, req, api_key.name)
    [] OTHER -> w

\* the loop of decodeHeaders over requirement_->api_key().api_keys()
RECURSIVE ExtractAPIKeys(_, _, _)
ExtractAPIKeys(w, req, api_keys) ==
  IF api_keys = <<>> THEN w
  ELSE ExtractAPIKeys(ExtractOne(w, req, Head(api_keys)), req, Tail(api_keys))

----------------------------------------------------------------------------
(* Results the collaborators deliver *)

Async == [async |-> TRUE]

\* the handle getToken returns: a handle on the fetch while its callback is
\* outstanding, null when the callback was delivered before getToken returned
getTokenHandle(tm) == tm = Async

TokenResults == {[ok |-> TRUE, token |-> "T"], [ok |-> FALSE, token |-> ""]}

\* what a check call delivers: a transport failure, a body that does not
\* parse, or a body ConvertCheckResponse translates into a status and an info
CheckResponses ==
  {[kind |-> "transport", ok |-> FALSE, is_api_key_valid |-> FALSE,
    service_is_activated |-> FALSE],
   [kind |-> "json", ok |-> FALSE, is_api_key_valid |-> FALSE,
    service_is_activated |-> FALSE]}
  \cup {[kind |-> "converted", ok |-> o, is_api_key_valid |-> v,
         service_is_activated |-> a] : o \in BOOLEAN, v \in BOOLEAN, a \in BOOLEAN}

Delivered(r) ==
  IF r.kind = "converted" THEN (IF r.ok THEN "ok" ELSE "convert") ELSE r.kind

NoCode == 0

----------------------------------------------------------------------------
(* Filter methods, filter.cc 69-290 *)

\* variant: the response flag is not set
rejectRequest_NoFlag(w, code) ==
  [w EXCEPT !.denied = @ + 1,
            !.state_ = "Responded",
            !.replies = Append(@, code)]

rejectRequest(w, code) ==
  [w EXCEPT !.denied = @ + 1,
            !.state_ = "Responded",
            !.replies = Append(@, code),
            !.responseFlag = TRUE]

\* variant: continueDecoding is called without looking at stopped_
onCheckResponse_AlwaysResume(w, r) ==
  LET w1 == [w EXCEPT !.check_call_ = FALSE, !.checkCall = Delivered(r)]
  IN IF w1.state_ = "Responded" THEN w1
     ELSE IF r.kind = "transport" THEN rejectRequest(w1, 401)
     ELSE IF r.kind = "json" THEN rejectRequest(w1, 401)
     ELSE LET w2 == [w1 EXCEPT !.check_status_ = r.ok,
                               !.check_response_info_ =
                                  [is_api_key_valid |-> r.is_api_key_valid,
                                   service_is_activated |-> r.service_is_activated]]
          IN IF ~w2.check_status_ THEN rejectRequest(w2, 401)
             ELSE [w2 EXCEPT !.allowed = @ + 1,
                             !.state_ = "Complete",
                             !.resumed = @ + 1]

\* variant: the return after the rejection of a non-ok translation is missing
onCheckResponse_FallThrough(w, r) ==
  LET w1 == [w EXCEPT !.check_call_ = FALSE, !.checkCall = Delivered(r)]
  IN IF w1.state_ = "Responded" THEN w1
     ELSE IF r.kind = "transport" THEN rejectRequest(w1, 401)
     ELSE IF r.kind = "json" THEN rejectRequest(w1, 401)
     ELSE LET w2 == [w1 EXCEPT !.check_status_ = r.ok,
                               !.check_response_info_ =
                                  [is_api_key_valid |-> r.is_api_key_valid,
                                   service_is_activated |-> r.service_is_activated]]
              w3 == IF ~w2.check_status_ THEN rejectRequest(w2, 401) ELSE w2
          IN [w3 EXCEPT !.allowed = @ + 1,
                        !.state_ = "Complete",
                        !.resumed = IF w3.stopped_ THEN @ + 1 ELSE @]

\* variant: the translation status is not inspected
onCheckResponse_IgnoreStatus(w, r) ==
  LET w1 == [w EXCEPT !.check_call_ = FALSE, !.checkCall = Delivered(r)]
  IN IF w1.state_ = "Responded" THEN w1
     ELSE IF r.kind = "transport" THEN rejectRequest(w1, 401)
     ELSE IF r.kind = "json" THEN rejectRequest(w1, 401)
     ELSE LET w2 == [w1 EXCEPT !.check_status_ = r.ok,
                               !.check_response_info_ =
                                  [is_api_key_valid |-> r.is_api_key_valid,
                                   service_is_activated |-> r.service_is_activated]]
          IN [w2 EXCEPT !.allowed = @ + 1,
                        !.state_ = "Complete",
                        !.resumed = IF w2.stopped_ THEN @ + 1 ELSE @]

\* variant: the pipeline is not resumed after a successful check
onCheckResponse_NoResume(w, r) ==
  LET w1 == [w EXCEPT !.check_call_ = FALSE, !.checkCall = Delivered(r)]
  IN IF w1.state_ = "Responded" THEN w1
     ELSE IF r.kind = "transport" THEN rejectRequest(w1, 401)
     ELSE IF r.kind = "json" THEN rejectRequest(w1, 401)
     ELSE LET w2 == [w1 EXCEPT !.check_status_ = r.ok,
                               !.check_response_info_ =
                                  [is_api_key_valid |-> r.is_api_key_valid,
                                   service_is_activated |-> r.service_is_activated]]
          IN IF ~w2.check_status_ THEN rejectRequest(w2, 401)
             ELSE [w2 EXCEPT !.allowed = @ + 1, !.state_ = "Complete"]

\* variant: the report is sent as soon as the check succeeds
onCheckResponse_ReportsEarly(w, r) ==
  LET w1 == [w EXCEPT !.check_call_ = FALSE, !.checkCall = Delivered(r)]
  IN IF w1.state_ = "Responded" THEN w1
     ELSE IF r.kind = "transport" THEN rejectRequest(w1, 401)
     ELSE IF r.kind = "json" THEN rejectRequest(w1, 401)
     ELSE LET w2 == [w1 EXCEPT !.check_status_ = r.ok,
                               !.check_response_info_ =
                                  [is_api_key_valid |-> r.is_api_key_valid,
                                   service_is_activated |-> r.service_is_activated]]
          IN IF ~w2.check_status_ THEN rejectRequest(w2, 401)
             ELSE [w2 EXCEPT !.allowed = @ + 1,
                             !.state_ = "Complete",
                             !.resumed = IF w2.stopped_ THEN @ + 1 ELSE @,
                             !.reports = Append(@, [early |-> TRUE])]

onCheckResponse(w, r) ==
  LET w1 == [w EXCEPT !.check_call_ = FALSE, !.checkCall = Delivered(r)]
  IN IF w1.state_ = "Responded" THEN w1
     ELSE IF r.kind = "transport" THEN rejectRequest(w1, 401)
     ELSE IF r.kind = "json" THEN rejectRequest(w1, 401)
     ELSE LET w2 == [w1 EXCEPT !.check_status_ = r.ok,
                               !.check_response_info_ =
                                  [is_api_key_valid |-> r.is_api_key_valid,
                                   service_is_activated |-> r.service_is_activated]]
          IN IF ~w2.check_status_ THEN rejectRequest(w2, 401)
             ELSE [w2 EXCEPT !.allowed = @ + 1,
                             !.state_ = "Complete",
                             !.resumed = IF w2.stopped_ THEN @ + 1 ELSE @]

\* variant: the token is stored but the check call is never sent
onTokenDone_NoCheck(w, status, cm) ==
  LET w1 == [w EXCEPT !.token_fetcher_ = FALSE,
                      !.tokenCall = IF status.ok THEN "ok" ELSE "failed"]
  IN IF w1.state_ = "Responded" THEN w1
     ELSE IF ~status.ok THEN rejectRequest(w1, 401)
     ELSE [w1 EXCEPT !.token_ = status.token]

\* variant: the fetch handle is not cleared when the callback fires
onTokenDone_KeepsHandle(w, status, cm) ==
  LET w1 == [w EXCEPT !.tokenCall = IF status.ok THEN "ok" ELSE "failed"]
  IN IF w1.state_ = "Responded" THEN w1
     ELSE IF ~status.ok THEN rejectRequest(w1, 401)
     ELSE LET w2 == [w1 EXCEPT !.token_ = status.token]
              w3 == [w2 EXCEPT
                       !.checkCalls = Append(@,
                          [operation_id |-> w2.uuid_,
                           operation_name |-> w2.operation_name_,
                           api_key |-> w2.api_key_,
                           token |-> w2.token_]),
                       !.check_call_ = TRUE,
                       !.checkCall = "pending"]
          IN IF cm = Async THEN w3 ELSE onCheckResponse(w3, cm)

\* variant: the return after the rejection is missing
onTokenDone_FallThrough(w, status, cm) ==
  LET w1 == [w EXCEPT !.token_fetcher_ = FALSE,
                      !.tokenCall = IF status.ok THEN "ok" ELSE "failed"]
  IN IF w1.state_ = "Responded" THEN w1
     ELSE LET wr == IF ~status.ok THEN rejectRequest(w1, 401) ELSE w1
              w2 == [wr EXCEPT !.token_ = status.token]
              w3 == [w2 EXCEPT
                       !.checkCalls = Append(@,
                          [operation_id |-> w2.uuid_,
                           operation_name |-> w2.operation_name_,
                           api_key |-> w2.api_key_,
                           token |-> w2.token_]),
                       !.check_call_ = TRUE,
                       !.checkCall = "pending"]
          IN IF cm = Async THEN w3 ELSE onCheckResponse(w3, cm)

\* cm is Async, or the response the check call delivers inside call()
onTokenDone(w, status, cm) ==
  LET w1 == [w EXCEPT !.token_fetcher_ = FALSE,
                      !.tokenCall = IF status.ok THEN "ok" ELSE "failed"]
  IN IF w1.state_ = "Responded" THEN w1
     ELSE IF ~status.ok THEN rejectRequest(w1, 401)
     ELSE LET w2 == [w1 EXCEPT !.token_ = status.token]
              w3 == [w2 EXCEPT
                       !.checkCalls = Append(@,
                          [operation_id |-> w2.uuid_,
                           operation_name |-> w2.operation_name_,
                           api_key |-> w2.api_key_,
                           token |-> w2.token_]),
                       !.check_call_ = TRUE,
                       !.checkCall = "pending"]
          IN IF cm = Async THEN w3 ELSE onCheckResponse(w3, cm)

\* variant: Continue is returned whenever the state has left Calling
decodeHeaders_ContinueUnlessCalling(w, cfg, req, tm, cm, ret) ==
  LET w0 == [w EXCEPT !.uuid_ = "uuid-1",
                      !.requirement_ = FindRequirement(cfg, req.method, req.path)]
  IN IF w0.requirement_ = Null
       THEN [rejectRequest(w0, 404) EXCEPT !.hdrResult = "StopIteration"]
     ELSE
     LET w1 == [w0 EXCEPT !.service_ctx_ = FindService(w0.requirement_.service_name)]
     IN IF w1.service_ctx_ = Null
          THEN [rejectRequest(w1, 404) EXCEPT !.hdrResult = "StopIteration"]
        ELSE IF w1.requirement_.allow_without_api_key
          THEN [w1 EXCEPT !.hdrResult = "Continue"]
        ELSE
        LET w2 == [w1 EXCEPT !.operation_name_ = w1.requirement_.operation_name]
            w3 == ExtractAPIKeys(w2, req, w2.requirement_.api_keys)
            w4 == [w3 EXCEPT !.api_name_ = w3.requirement_.api_name,
                             !.api_version_ = w3.requirement_.api_version,
                             !.state_ = "Calling",
                             !.stopped_ = FALSE,
                             !.tokenFetches = @ + 1,
                             !.tokenCall = "pending"]
            w5 == IF tm = Async
                    THEN [w4 EXCEPT !.token_fetcher_ = TRUE]
                    ELSE [onTokenDone(w4, tm, cm) EXCEPT !.token_fetcher_ = ret]
        IN IF w5.state_ # "Calling"
             THEN [w5 EXCEPT !.hdrResult = "Continue"]
             ELSE [w5 EXCEPT !.stopped_ = TRUE, !.hdrResult = "StopIteration"]

\* variant: the key is extracted before the allow_without_api_key test
decodeHeaders_ExtractFirst(w, cfg, req, tm, cm, ret) ==
  LET w0 == [w EXCEPT !.uuid_ = "uuid-1",
                      !.requirement_ = FindRequirement(cfg, req.method, req.path)]
  IN IF w0.requirement_ = Null
       THEN [rejectRequest(w0, 404) EXCEPT !.hdrResult = "StopIteration"]
     ELSE
     LET w1 == [w0 EXCEPT !.service_ctx_ = FindService(w0.requirement_.service_name)]
     IN IF w1.service_ctx_ = Null
          THEN [rejectRequest(w1, 404) EXCEPT !.hdrResult = "StopIteration"]
        ELSE
        LET w2 == [w1 EXCEPT !.operation_name_ = w1.requirement_.operation_name]
            w3 == ExtractAPIKeys(w2, req, w2.requirement_.api_keys)
        IN IF w3.requirement_.allow_without_api_key
             THEN [w3 EXCEPT !.hdrResult = "Continue"]
           ELSE
           LET w4 == [w3 EXCEPT !.api_name_ = w3.requirement_.api_name,
                                !.api_version_ = w3.requirement_.api_version,
                                !.state_ = "Calling",
                                !.stopped_ = FALSE,
                                !.tokenFetches = @ + 1,
                                !.tokenCall = "pending"]
               w5 == IF tm = Async
                       THEN [w4 EXCEPT !.token_fetcher_ = TRUE]
                       ELSE [onTokenDone(w4, tm, cm) EXCEPT !.token_fetcher_ = ret]
           IN IF w5.state_ = "Complete"
                THEN [w5 EXCEPT !.hdrResult = "Continue"]
                ELSE [w5 EXCEPT !.stopped_ = TRUE, !.hdrResult = "StopIteration"]

\* tm is Async, or the result getToken delivers before it returns; ret tells
\* whether the handle getToken returns after such a delivery is non-null
decodeHeaders(w, cfg, req, tm, cm, ret) ==
  LET w0 == [w EXCEPT !.uuid_ = "uuid-1",
                      !.requirement_ = FindRequirement(cfg, req.method, req.path)]
  IN IF w0.requirement_ = Null
       THEN [rejectRequest(w0, 404) EXCEPT !.hdrResult = "StopIteration"]
     ELSE
     LET w1 == [w0 EXCEPT !.service_ctx_ = FindService(w0.requirement_.service_name)]
     IN IF w1.service_ctx_ = Null
          THEN [rejectRequest(w1, 404) EXCEPT !.hdrResult = "StopIteration"]
        ELSE IF w1.requirement_.allow_without_api_key
          THEN [w1 EXCEPT !.hdrResult = "Continue"]
        ELSE
        LET w2 == [w1 EXCEPT !.operation_name_ = w1.requirement_.operation_name]
            w3 == ExtractAPIKeys(w2, req, w2.requirement_.api_keys)
            w4 == [w3 EXCEPT !.api_name_ = w3.requirement_.api_name,
                             !.api_version_ = w3.requirement_.api_version,
                             !.state_ = "Calling",
                             !.stopped_ = FALSE,
                             !.tokenFetches = @ + 1,
                             !.tokenCall = "pending"]
            w5 == IF tm = Async
                    THEN [w4 EXCEPT !.token_fetcher_ = TRUE]
                    ELSE [onTokenDone(w4, tm, cm) EXCEPT !.token_fetcher_ = ret]
        IN IF w5.state_ = "Complete"
             THEN [w5 EXCEPT !.hdrResult = "Continue"]
             ELSE [w5 EXCEPT !.stopped_ = TRUE, !.hdrResult = "StopIteration"]

\* variant: teardown also marks the request Responded
onDestroy_MarksResponded(w) ==
  LET w1 == IF w.token_fetcher_
              THEN [w EXCEPT
                      !.cancels = Append(@, [call |-> "token", was |-> w.tokenCall]),
                      !.tokenCall = IF @ = "pending" THEN "cancelled" ELSE @,
                      !.token_fetcher_ = FALSE]
              ELSE w
      w2 == IF w1.check_call_
              THEN [w1 EXCEPT
                      !.cancels = Append(@, [call |-> "check", was |-> w1.checkCall]),
                      !.checkCall = IF @ = "pending" THEN "cancelled" ELSE @,
                      !.check_call_ = FALSE]
              ELSE w1
  IN [w2 EXCEPT !.state_ = "Responded"]

\* variant: only the token fetch is cancelled
onDestroy_TokenOnly(w) ==
  IF w.token_fetcher_
    THEN [w EXCEPT
            !.cancels = Append(@, [call |-> "token", was |-> w.tokenCall]),
            !.tokenCall = IF @ = "pending" THEN "cancelled" ELSE @,
            !.token_fetcher_ = FALSE]
    ELSE w

onDestroy(w) ==
  LET w1 == IF w.token_fetcher_
              THEN [w EXCEPT
                      !.cancels = Append(@, [call |-> "token", was |-> w.tokenCall]),
                      !.tokenCall = IF @ = "pending" THEN "cancelled" ELSE @,
                      !.token_fetcher_ = FALSE]
              ELSE w
  IN IF w1.check_call_
       THEN [w1 EXCEPT
               !.cancels = Append(@, [call |-> "check", was |-> w1.checkCall]),
               !.checkCall = IF @ = "pending" THEN "cancelled" ELSE @,
               !.check_call_ = FALSE]
       ELSE w1

\* variant: the decision is taken on stopped_ instead of state_
decodeData_ByStopped(w) ==
  IF w.stopped_ THEN "StopIterationAndWatermark" ELSE "Continue"

decodeData(w) ==
  IF w.state_ = "Calling" THEN "StopIterationAndWatermark" ELSE "Continue"

decodeTrailers(w) ==
  IF w.state_ = "Calling" THEN "StopIteration" ELSE "Continue"

\* variant: the service activation is not inspected
ReportApiKey_KeyValidOnly(w) ==
  IF w.check_response_info_.is_api_key_valid THEN w.api_key_ ELSE ""

\* the api_key field of the report, filter.cc 259-262
ReportApiKey(w) ==
  IF w.check_response_info_.is_api_key_valid
     /\ w.check_response_info_.service_is_activated
    THEN w.api_key_ ELSE ""

ReportRequestInfo(w, responseCode) ==
  [operation_id |-> w.uuid_,
   operation_name |-> w.operation_name_,
   api_key |-> ReportApiKey(w),
   api_method |-> w.operation_name_,
   api_name |-> w.api_name_,
   api_version |-> w.api_version_,
   url |-> w.operation_name_,
   method |-> w.http_method_,
   check_response_info |-> w.check_response_info_,
   status |-> w.check_status_,
   response_code |-> IF responseCode = NoCode THEN 500 ELSE responseCode,
   token |-> w.token_,
   service |-> w.service_ctx_]

\* The worlds log() can leave behind.  With service_ctx_ null the reads of
\* service_ctx_->config() at lines 257, 282, 285 and 288 are undefined: the
\* process dies on the access, or the call goes out built from whatever the
\* reads returned.
log(w, responseCode) ==
  IF w.service_ctx_ = Null
    THEN {[w EXCEPT !.crashed = TRUE],
          [w EXCEPT !.reports = Append(@, ReportRequestInfo(w, responseCode))]}
    ELSE {[w EXCEPT !.reports = Append(@, ReportRequestInfo(w, responseCode))]}

----------------------------------------------------------------------------
(* Inputs *)

\* configurations and requests of the full-pipeline runs
MainSources ==
  {[key_case |-> "kQuery", name |-> "key"],
   [key_case |-> "kHeader", name |-> "X-API-Key"]}

MainConfigs == SeqsUpTo(MainSources, MaxSources)

MainRequests ==
  {Request("GET", "/v1/items", q, h, EmptyMap) :
     q \in Maps({"key"}, {"", "abc123"}), h \in Maps({"x-api-key"}, {"hk"})}
  \cup {Request("GET", "/open", q, EmptyMap, EmptyMap) :
          q \in Maps({"key"}, {"abc123"})}
  \cup {Request("GET", "/orphan", EmptyMap, EmptyMap, EmptyMap),
        Request("GET", "/nope", EmptyMap, EmptyMap, EmptyMap),
        Request("POST", "/v1/items", EmptyMap, EmptyMap, EmptyMap)}

\* configurations and requests of the key-extraction runs
KeyConfigs == SeqsUpTo(APIKeySources, MaxKeySources)

KeyRequests ==
  {Request("GET", "/v1/items", q, h, c) :
     q \in {f \in Maps({"key", "api_key"}, {"", "qk", "qa"}) :
              \A n \in DOMAIN f : f[n] \in {"", IF n = "key" THEN "qk" ELSE "qa"}},
     h \in Maps({"x-api-key"}, {"", "hk"}),
     c \in Maps({"key"}, {"", "ck"})}

CheckResponseInfos ==
  [is_api_key_valid : BOOLEAN, service_is_activated : BOOLEAN]

----------------------------------------------------------------------------
(* Initial state: a filter constructed for a stream, nothing delivered yet. *)
(* The value a default-constructed CheckResponseInfo holds is set outside   *)
(* filter.cc, so every value is admitted.                                   *)

InitWith(cfgs, infos) ==
  /\ config \in cfgs
  /\ request = NoRequest
  /\ state_ = "Idle"
  /\ stopped_ = FALSE
  /\ token_fetcher_ = FALSE
  /\ check_call_ = FALSE
  /\ token_ = ""
  /\ api_key_ = ""
  /\ requirement_ = Null
  /\ service_ctx_ = Null
  /\ uuid_ = ""
  /\ operation_name_ = ""
  /\ api_name_ = ""
  /\ api_version_ = ""
  /\ http_method_ = ""
  /\ params_parsed_ = FALSE
  /\ parsed_params_ = EmptyMap
  /\ check_status_ = TRUE
  /\ check_response_info_ \in infos
  /\ allowed = 0
  /\ denied = 0
  /\ replies = <<>>
  /\ responseFlag = FALSE
  /\ resumed = 0
  /\ tokenFetches = 0
  /\ checkCalls = <<>>
  /\ reports = <<>>
  /\ tokenCall = "none"
  /\ checkCall = "none"
  /\ cancels = <<>>
  /\ crashed = FALSE
  /\ hdrResult = "none"
  /\ bodyLog = <<>>
  /\ trailersSeen = FALSE
  /\ destroyCount = 0
  /\ exchangeComplete = FALSE

Init == InitWith(MainConfigs, CheckResponseInfos)

----------------------------------------------------------------------------
(* Pipeline and collaborator steps *)

Outstanding == tokenCall = "pending" \/ checkCall = "pending"

DecodeHeadersWith(reqs, tms, cms) ==
  /\ request = NoRequest
  /\ \E req \in reqs, tm \in tms, cm \in cms :
     \E ret \in {getTokenHandle(tm)} :
       /\ request' = req
       /\ Assign(decodeHeaders(World, config, req, tm, cm, ret))
  /\ UNCHANGED <<config, bodyLog, trailersSeen, destroyCount, exchangeComplete>>

DecodeHeaders ==
  DecodeHeadersWith(MainRequests, {Async} \cup TokenResults,
                    {Async} \cup CheckResponses)

\* the token cache delivers the result of an outstanding fetch
TokenDone ==
  /\ tokenCall = "pending"
  /\ ~crashed
  /\ \E status \in TokenResults, cm \in {Async} \cup CheckResponses :
       Assign(onTokenDone(World, status, cm))
  /\ UNCHANGED pipeVars

\* the HTTP call delivers the result of an outstanding check
CheckResponse ==
  /\ checkCall = "pending"
  /\ ~crashed
  /\ \E r \in CheckResponses : Assign(onCheckResponse(World, r))
  /\ UNCHANGED pipeVars

DataCount == Cardinality({i \in 1..Len(bodyLog) : bodyLog[i].ev = "data"})

Delivery(ev, result) ==
  [ev |-> ev, state |-> state_, outstanding |-> Outstanding, result |-> result]

DecodeData ==
  /\ request # NoRequest
  /\ ~crashed
  /\ destroyCount = 0
  /\ ~exchangeComplete
  /\ ~trailersSeen
  /\ DataCount < MaxData
  /\ bodyLog' = Append(bodyLog, Delivery("data", decodeData(World)))
  /\ UNCHANGED <<filterVars, effectVars, config, request, trailersSeen,
                 destroyCount, exchangeComplete>>

DecodeTrailers ==
  /\ request # NoRequest
  /\ ~crashed
  /\ destroyCount = 0
  /\ ~exchangeComplete
  /\ ~trailersSeen
  /\ bodyLog' = Append(bodyLog, Delivery("trailers", decodeTrailers(World)))
  /\ trailersSeen' = TRUE
  /\ UNCHANGED <<filterVars, effectVars, config, request, destroyCount,
                 exchangeComplete>>

Destroy ==
  /\ request # NoRequest
  /\ ~crashed
  /\ destroyCount < MaxDestroy
  /\ Assign(onDestroy(World))
  /\ destroyCount' = destroyCount + 1
  /\ UNCHANGED <<config, request, bodyLog, trailersSeen, exchangeComplete>>

\* what stream_info.responseCode() holds at the end of the exchange
ResponseCodes ==
  IF replies # <<>> THEN {replies[Len(replies)]} ELSE {NoCode, 200}

\* the exchange is over (answered, let through, or torn down): the pipeline
\* runs the access-log hook once
Log ==
  /\ request # NoRequest
  /\ ~crashed
  /\ ~exchangeComplete
  /\ state_ # "Calling" \/ destroyCount > 0
  /\ \E rc \in ResponseCodes : \E w \in log(World, rc) : Assign(w)
  /\ exchangeComplete' = TRUE
  /\ UNCHANGED <<config, request, bodyLog, trailersSeen, destroyCount>>

Next ==
  \/ DecodeHeaders
  \/ TokenDone
  \/ CheckResponse
  \/ DecodeData
  \/ DecodeTrailers
  \/ Destroy
  \/ Log

Spec == Init /\ [][Next]_vars

----------------------------------------------------------------------------
(* A pipeline in which a cancelled call still delivers its callback: the    *)
(* late callback the guards at filter.cc 145-149 and 191-195 are there for. *)

StaleTokenDone ==
  /\ tokenCall = "cancelled"
  /\ ~crashed
  /\ \E status \in TokenResults, cm \in {Async} \cup CheckResponses :
       Assign(onTokenDone(World, status, cm))
  /\ UNCHANGED pipeVars

StaleCheckResponse ==
  /\ checkCall = "cancelled"
  /\ ~crashed
  /\ \E r \in CheckResponses : Assign(onCheckResponse(World, r))
  /\ UNCHANGED pipeVars

NextStale ==
  \/ Next
  \/ StaleTokenDone
  \/ StaleCheckResponse

SpecStale == Init /\ [][NextStale]_vars

----------------------------------------------------------------------------
(* Key extraction alone: header handling over every declared source list    *)
(* and every combination of present, empty and missing values.              *)

\* no check outcome is read during header handling: one default suffices
InitKeys ==
  InitWith(KeyConfigs, {[is_api_key_valid |-> TRUE, service_is_activated |-> TRUE]})

DecodeHeadersKeys == DecodeHeadersWith(KeyRequests, {Async}, {Async})

NextKeys == DecodeHeadersKeys

SpecKeys == InitKeys /\ [][NextKeys]_vars

----------------------------------------------------------------------------
(* Vocabulary of the properties *)

HeadersSeen == request # NoRequest

Resolved == FindRequirement(config, request.method, request.path)

NoMatch == HeadersSeen /\ Resolved = Null

ServiceMissing ==
  HeadersSeen /\ Resolved # Null /\ FindService(Resolved.service_name) = Null

KeyRequired ==
  /\ HeadersSeen /\ Resolved # Null
  /\ FindService(Resolved.service_name) # Null
  /\ ~Resolved.allow_without_api_key

\* what a declared source holds in a request
SourcePresent(src, req) ==
  CASE src.key_case = "kQuery" -> src.name \in DOMAIN req.query
    [] src.key_case = "kHeader" -> LowerCaseString(src.name) \in DOMAIN req.headers
    [] src.key_case = "kCookie" -> src.name \in DOMAIN req.cookies
    [] OTHER -> FALSE

SourceValue(src, req) ==
  CASE src.key_case = "kQuery" -> req.query[src.name]
    [] src.key_case = "kHeader" -> req.headers[LowerCaseString(src.name)]
    [] src.key_case = "kCookie" -> req.cookies[src.name]
    [] OTHER -> ""

YieldsNonEmpty(src, req) == SourcePresent(src, req) /\ SourceValue(src, req) # ""

\* a query parameter or header counts when present, a cookie when non-empty
YieldsPresent(src, req) ==
  IF src.key_case = "kCookie" THEN YieldsNonEmpty(src, req)
  ELSE SourcePresent(src, req)

MaxOf(S) == CHOOSE m \in S : \A n \in S : n <= m

\* the value of the last declared source that counts under Yields
LastYield(Yields(_, _), srcs, req) ==
  LET hits == {i \in 1..Len(srcs) : Yields(srcs[i], req)}
  IN IF hits = {} THEN "" ELSE SourceValue(srcs[MaxOf(hits)], req)

\* the key header handling extracts: none on the paths that end before the
\* extraction loop
ExtractedKey ==
  IF KeyRequired THEN LastYield(YieldsPresent, config, request) ELSE ""

\* the request's URL, path with query string (headers.Path())
RequestUrl(req) ==
  IF "key" \in DOMAIN req.query
    THEN req.path \o "?key=" \o req.query["key"]
    ELSE req.path

Bypass ==
  /\ HeadersSeen /\ Resolved # Null
  /\ FindService(Resolved.service_name) # Null
  /\ Resolved.allow_without_api_key

IsStop(result) == result \in {"StopIteration", "StopIterationAndWatermark"}

----------------------------------------------------------------------------
(* Properties *)

\* C1: a request whose (method, path) matches no configured operation is
\* answered with 404, and at no later point is a token fetched, a check sent
\* or a report sent; the end-of-exchange log step skips reporting instead of
\* reading the service data that was never resolved.
C1_NoMatchIssuesNothing ==
  NoMatch =>
    /\ replies = <<404>>
    /\ tokenFetches = 0
    /\ checkCalls = <<>>
    /\ reports = <<>>
    /\ ~crashed

\* C2: once the token callback has delivered a non-ok status the request is
\* answered with 401, the state is Responded and no check call exists, now
\* or at any later point of the request.
C2_TokenFailureRejects ==
  tokenCall = "failed" =>
    /\ replies = <<401>>
    /\ state_ = "Responded"
    /\ checkCalls = <<>>

C2_Witness ==
  /\ tokenCall = "failed"
  /\ exchangeComplete
  /\ destroyCount > 0
  /\ bodyLog # <<>>

\* C3: once the check callback has delivered a transport failure, a body
\* that does not deserialize or a non-ok translation, the request is answered
\* with 401, the state is Responded, the allowed counter is untouched and the
\* pipeline has not been resumed, now or at any later point.
C3_CheckFailureRejects ==
  checkCall \in {"transport", "json", "convert"} =>
    /\ replies = <<401>>
    /\ state_ = "Responded"
    /\ allowed = 0
    /\ resumed = 0

C3_Witness ==
  /\ checkCall = "convert"
  /\ hdrResult = "StopIteration"
  /\ check_response_info_.is_api_key_valid
  /\ exchangeComplete


\* C4: once teardown has run, a further teardown, a token callback or a
\* check callback changes no request state (state, token, check outcome,
\* pending handles), issues no check call, increments no counter, emits no
\* response and does not resume the pipeline.
C4_NothingAfterTeardown ==
  [][destroyCount > 0 =>
       UNCHANGED <<state_, token_, check_status_, check_response_info_,
                   token_fetcher_, check_call_, checkCalls, allowed, denied,
                   replies, responseFlag, resumed>>]_vars

\* C5: a request whose operation resolves but whose service is not
\* configured is answered with 404, leaves the denied counter unchanged, and
\* the end-of-exchange log step sends no report built from the absent
\* service data.
C5_ServiceMissingUntouched ==
  ServiceMissing =>
    /\ replies = <<404>>
    /\ denied = 0
    /\ reports = <<>>
    /\ ~crashed

C7_LastNonEmptyWins ==
  KeyRequired => api_key_ = LastYield(YieldsNonEmpty, config, request)

\* C7 amended: apiKey is the value of the last declared source that counts,
\* where a query parameter or a header counts whenever it is present (an
\* empty value included) and a cookie counts only when its value is
\* non-empty; apiKey is empty when no source counts.
C7_LastPresentWins ==
  KeyRequired => api_key_ = LastYield(YieldsPresent, config, request)

C7_Witness ==
  /\ KeyRequired
  /\ Len(config) = 3
  /\ config[1].key_case = "kHeader"
  /\ config[2].key_case = "kCookie"
  /\ config[3].key_case = "kQuery"
  /\ YieldsNonEmpty(config[1], request)
  /\ YieldsNonEmpty(config[2], request)
  /\ ~SourcePresent(config[3], request)
  /\ api_key_ = "ck"

\* C8: a key-requiring request whose token fetch succeeded and whose check
\* came back ok with the key valid and the service activated has exactly one
\* check call, proceeds (state Complete, no synthetic reply, resumed once if
\* header handling paused it), counts once as allowed and never as denied,
\* and the end-of-exchange step sends exactly one report, whose key is the
\* key extracted from the request and sent in the check.
C8_AllowedEndToEnd ==
  ( /\ KeyRequired
    /\ tokenCall = "ok"
    /\ checkCall = "ok"
    /\ check_response_info_.is_api_key_valid
    /\ check_response_info_.service_is_activated ) =>
    /\ Len(checkCalls) = 1
    /\ state_ = "Complete"
    /\ replies = <<>>
    /\ hdrResult = "StopIteration" => resumed = 1
    /\ allowed = 1
    /\ denied = 0
    /\ Len(reports) = IF exchangeComplete THEN 1 ELSE 0
    /\ checkCalls[1].api_key = LastYield(YieldsPresent, config, request)
    /\ exchangeComplete => reports[1].api_key = checkCalls[1].api_key

C8_Witness ==
  /\ KeyRequired
  /\ config = <<[key_case |-> "kQuery", name |-> "key"]>>
  /\ request.query = [n \in {"key"} |-> "abc123"]
  /\ tokenCall = "ok"
  /\ checkCall = "ok"
  /\ hdrResult = "StopIteration"
  /\ resumed = 1
  /\ allowed = 1
  /\ Len(reports) = 1
  /\ reports[1].api_key = "abc123"

\* C9: a check call exists only after the token callback has fired with
\* success, and a report exists only after the exchange has completed.
C9_Ordering ==
  /\ checkCalls # <<>> => tokenCall = "ok"
  /\ reports # <<>> => exchangeComplete

C9_Witness ==
  /\ Len(checkCalls) = 1
  /\ Len(reports) = 1
  /\ checkCall = "ok"

\* C10: a body chunk or trailer delivered while state is Calling, and so
\* any delivered while a token fetch or check call is outstanding, gets a
\* stop result; one delivered after state has left Calling is passed on.
C10_BodyHeldWhileCalling ==
  \A i \in 1..Len(bodyLog) :
    /\ bodyLog[i].state = "Calling" => IsStop(bodyLog[i].result)
    /\ bodyLog[i].outstanding => IsStop(bodyLog[i].result)
    /\ bodyLog[i].state # "Calling" => bodyLog[i].result = "Continue"

C10_Witness ==
  /\ Len(bodyLog) = 3
  /\ bodyLog[1].ev = "data" /\ bodyLog[1].outstanding /\ IsStop(bodyLog[1].result)
  /\ bodyLog[2].ev = "data" /\ bodyLog[2].state = "Complete"
  /\ bodyLog[2].result = "Continue"
  /\ bodyLog[3].ev = "trailers" /\ bodyLog[3].result = "Continue"


\* C11: a request that proceeds to the backend (header handling returned
\* Continue, or the pipeline was resumed), through a successful check or
\* through the no-key-required bypass, has incremented the allowed counter
\* exactly once and has produced no synthetic response.
C11_ProceedingCountsAllowed ==
  (HeadersSeen /\ (hdrResult = "Continue" \/ resumed > 0)) =>
    /\ allowed = 1
    /\ replies = <<>>

\* C12: every report carries the HTTP method of the request and the URL of
\* the request (path with query string).
C12_ReportCarriesMethodAndUrl ==
  \A i \in 1..Len(reports) :
    /\ reports[i].method = request.method
    /\ reports[i].url = RequestUrl(request)

C14_ForwardAndTerminal ==
  [][ /\ state_ = "Calling" => state_' \in {"Calling", "Complete", "Responded"}
      /\ state_' = "Idle" => state_ = "Idle"
      /\ state_ \in {"Complete", "Responded"} =>
           UNCHANGED <<state_, token_, check_status_, check_response_info_,
                       replies, resumed, allowed, denied>> ]_vars

C14_Witness ==
  /\ state_ = "Complete"
  /\ destroyCount = 2
  /\ exchangeComplete
  /\ Len(bodyLog) = 3

C16_ContinueIffTokenFiredSync ==
  [][ (request = NoRequest /\ KeyRequired') =>
        IF tokenCall' = "pending"
          THEN hdrResult' = "StopIteration" /\ stopped_'
          ELSE hdrResult' = "Continue" ]_vars

\* C16 amended: header handling of a key-requiring request returns Continue,
\* with stopped_ left false, only when both the token callback and the check
\* callback fired during the token request with success (state Complete);
\* in every other case (token callback not fired, token failed, check still
\* outstanding, check failed) it sets stopped_ and returns StopIteration.
C16_ContinueIffCompleteSync ==
  [][ (request = NoRequest /\ KeyRequired') =>
        IF tokenCall' = "ok" /\ checkCall' = "ok"
          THEN hdrResult' = "Continue" /\ ~stopped_' /\ state_' = "Complete"
          ELSE hdrResult' = "StopIteration" /\ stopped_'
               /\ state_' \in {"Calling", "Responded"} ]_vars

C16_Witness ==
  /\ KeyRequired
  /\ tokenCall = "ok"
  /\ checkCall = "ok"
  /\ hdrResult = "Continue"
  /\ ~stopped_
  /\ state_ = "Complete"

\* C17: the pipeline has been resumed exactly once when the check succeeded
\* after header handling had paused it, and never when header handling
\* returned Continue or the request was rejected or is still undecided.
C17_ResumedOnceIffPausedAndAllowed ==
  resumed = IF state_ = "Complete" /\ hdrResult = "StopIteration" THEN 1 ELSE 0

C17_Witness ==
  /\ state_ = "Complete"
  /\ hdrResult = "StopIteration"
  /\ resumed = 1
  /\ exchangeComplete
  /\ destroyCount > 0

\* C18: for an operation that allows requests without a key, header handling
\* returns Continue without extracting a key, fetching a token, sending a
\* check or leaving Idle, and every later body chunk and trailer is passed on.
C18_BypassTouchesNothing ==
  Bypass =>
    /\ hdrResult = "Continue"
    /\ state_ = "Idle"
    /\ ~stopped_
    /\ api_key_ = ""
    /\ ~params_parsed_
    /\ tokenFetches = 0
    /\ tokenCall = "none"
    /\ checkCalls = <<>>
    /\ \A i \in 1..Len(bodyLog) : bodyLog[i].result = "Continue"

C18_Witness ==
  /\ Bypass
  /\ Len(config) > 0
  /\ config[Len(config)] = [key_case |-> "kQuery", name |-> "key"]
  /\ "key" \in DOMAIN request.query
  /\ Len(bodyLog) = 3

\* C19: at most one synthetic response is emitted and the denied counter is
\* incremented at most once; each rejection counts exactly once as denied,
\* leaves the state Responded and flags the response as blocked by
\* authorization.
C19_RejectionOnce ==
  /\ Len(replies) <= 1
  /\ denied = Len(replies)
  /\ replies # <<>> => state_ = "Responded" /\ responseFlag

C19_Witness ==
  /\ replies = <<401>>
  /\ denied = 1
  /\ responseFlag
  /\ exchangeComplete
  /\ destroyCount = 2

\* C20: no request both gets a synthetic rejection and is let through
\* (Continue returned, pipeline resumed, state Complete), and no request
\* counts both as allowed and as denied.
C20_OutcomesExclusive ==
  /\ replies # <<>> =>
       /\ hdrResult # "Continue"
       /\ resumed = 0
       /\ state_ # "Complete"
       /\ allowed = 0
  /\ ~(allowed > 0 /\ denied > 0)

C20_Witness ==
  /\ replies = <<401>>
  /\ checkCall = "convert"
  /\ denied = 1
  /\ stopped_

----------------------------------------------------------------------------
(* Collaborators that keep their contract: an outstanding token fetch and   *)
(* an outstanding check call deliver their callback unless cancelled.       *)

SpecLive == Spec /\ WF_vars(TokenDone) /\ WF_vars(CheckResponse)

\* C21: with every issued token fetch and check call delivering its
\* callback unless cancelled, a request in Calling reaches Complete or
\* Responded unless it is torn down, and a pipeline that header handling has
\* paused is resumed or answered with a synthetic rejection unless the
\* request is torn down.
C21_CallingTerminates ==
  /\ (state_ = "Calling") ~>
       (state_ \in {"Complete", "Responded"} \/ destroyCount > 0)
  /\ (hdrResult = "StopIteration") ~>
       (resumed > 0 \/ replies # <<>> \/ destroyCount > 0)

C21_Witness ==
  /\ state_ = "Complete"
  /\ hdrResult = "StopIteration"
  /\ resumed = 1
  /\ tokenCall = "ok"
  /\ checkCall = "ok"
  /\ destroyCount = 0

====
